---- MODULE Spec2Model ----
(***************************************************************************)
(* Operation resolution (connexion/resolver.py) and response validation    *)
(* (connexion/decorators/response.py).                                     *)
(*                                                                         *)
(* Python strings are sequences of one-character strings, so that format,  *)
(* lower, replace, strip, split and the path regular expression are        *)
(* computed character by character.  A Python dict is a function whose     *)
(* DOMAIN is its key set; dict.get(k) returning None is "k is no key".     *)
(***************************************************************************)
EXTENDS Naturals, Sequences, FiniteSets, TLC

VARIABLES
    controllers,  \* ObjectResolver.controllers: name -> controller instance
    history,      \* the add_controller calls made so far, in order
    ret,          \* the resolver call just made and its outcome, or NoCall
    validator,    \* the ResponseValidator instance: [operation, mimetype]
    pc,           \* per request: position inside wrapper
    result,       \* per request: wrapper's local `result`
    verdict,      \* per request: how get_full_response/validate_response ended
    returned      \* per request: what the wrapped call returned

vars == <<controllers, history, ret, validator, pc, result, verdict, returned>>

resolverVars == <<controllers, history, ret>>
validatorVars == <<validator, pc, result, verdict, returned>>

----------------------------------------------------------------------------
(* Strings *)

UpperAlpha == <<"A","B","C","D","E","F","G","H","I","J","K","L","M",
                "N","O","P","Q","R","S","T","U","V","W","X","Y","Z">>
LowerAlpha == <<"a","b","c","d","e","f","g","h","i","j","k","l","m",
                "n","o","p","q","r","s","t","u","v","w","x","y","z">>
DigitChars == {"0","1","2","3","4","5","6","7","8","9"}

Range(s) == {s[i] : i \in DOMAIN s}

\* str.lower(), one character
LowerChar(c) ==
    IF \E i \in DOMAIN UpperAlpha : UpperAlpha[i] = c
    THEN LowerAlpha[CHOOSE i \in DOMAIN UpperAlpha : UpperAlpha[i] = c]
    ELSE c

\* str.lower()
Lower(s) == [i \in DOMAIN s |-> LowerChar(s[i])]

\* str.replace(old, new) for one-character old and new
Replace(s, old, new) == [i \in DOMAIN s |-> IF s[i] = old THEN new ELSE s[i]]

\* the regular expression class [\w\-]
ResourceChars == Range(UpperAlpha) \cup Range(LowerAlpha) \cup DigitChars \cup {"_", "-"}

\* length of the longest prefix of s made of characters of cls (a greedy x*)
PrefixLen(s, cls) ==
    CHOOSE n \in 0..Len(s) :
        /\ \A i \in 1..n : s[i] \in cls
        /\ n = Len(s) \/ s[n + 1] \notin cls

\* length of the longest suffix of s made of characters of cls
SuffixLen(s, cls) ==
    CHOOSE n \in 0..Len(s) :
        /\ \A i \in (Len(s) - n + 1)..Len(s) : s[i] \in cls
        /\ n = Len(s) \/ s[Len(s) - n] \notin cls

\* str.strip(chars)
Strip(s, cls) ==
    LET a == PrefixLen(s, cls)
        b == SuffixLen(s, cls)
    IN  IF a = Len(s) THEN <<>> ELSE SubSeq(s, a + 1, Len(s) - b)

\* str.split(sep) for a one-character sep: the list of parts
RECURSIVE Split(_, _)
Split(s, sep) ==
    LET n == PrefixLen(s, Range(s) \ {sep})
    IN  IF n = Len(s) THEN <<s>>
        ELSE <<SubSeq(s, 1, n)>> \o Split(SubSeq(s, n + 2, Len(s)), sep)

\* '{}.{}'.format(a, b)
DotFormat(a, b) == a \o <<".">> \o b

\* "{}_{}".format(a, b)
UnderscoreFormat(a, b) == a \o <<"_">> \o b

\* dict.get(key, default)
Get(d, key, default) == IF key \in DOMAIN d THEN d[key] ELSE default

\* Python truthiness of dict.get(key): the key is there and its value is not empty
Truthy(d, key) == key \in DOMAIN d /\ d[key] # <<>>

EmptyDict == [k \in {} |-> <<>>]

----------------------------------------------------------------------------
(* The strings the operations below are tried on *)

s_api == <<"a","p","i">>  \* "api"
s_search == <<"s","e","a","r","c","h">>  \* "search"
s_list == <<"l","i","s","t">>  \* "list"
s_greeting == <<"g","r","e","e","t","i","n","g">>  \* "greeting"
s_pets == <<"p","e","t","s">>  \* "pets"
s_post_greeting == <<"p","o","s","t","_","g","r","e","e","t","i","n","g">>  \* "post_greeting"
s_get_pets == <<"g","e","t","_","p","e","t","s">>  \* "get_pets"
s_dotted == <<"v","1",".","g","r","e","e","t","i","n","g",".","p","o","s","t","_","g","r","e","e","t","i","n","g">>  \* "v1.greeting.post_greeting"
s_GET == <<"G","E","T">>  \* "GET"
s_Post == <<"P","o","s","t">>  \* "Post"
p_pets == <<"/","p","e","t","s">>  \* "/pets"
p_pets_id == <<"/","p","e","t","s","/","{","i","d","}">>  \* "/pets/{id}"
p_root == <<"/">>  \* "/"
p_my_pets == <<"/","m","y","-","p","e","t","s","/">>  \* "/my-pets/"
p_double == <<"/","/","p","e","t","s">>  \* "//pets"
p_greeting == <<"/","g","r","e","e","t","i","n","g">>  \* "/greeting"
p_empty == <<>>  \* ""

----------------------------------------------------------------------------
(* Outcomes of a call: a returned value or a raised exception *)

Return(v) == [kind |-> "return", value |-> v]

\* an exception of class exc whose str() is template % args
Raise(exc, template, args) ==
    [kind |-> "raise", exc |-> exc, template |-> template, args |-> args]

NoCall == [kind |-> "none"]

----------------------------------------------------------------------------
(* Operation descriptors (connexion.operation.Operation, consumed) *)

XRC == "x-swagger-router-controller"

Paths == {p_pets, p_pets_id, p_root, p_my_pets, p_double, p_greeting, p_empty}
Methods == {s_GET, s_Post}
OperationIds == {<<>>, s_post_greeting, s_dotted}
RouterControllers == {<<>>, s_greeting, s_pets}

\* the raw spec fragments: each key may be missing
Fragments ==
    { o @@ x :
        o \in {EmptyDict} \cup {"operationId" :> v : v \in OperationIds},
        x \in {EmptyDict} \cup {XRC :> v : v \in RouterControllers} }

Operations ==
    [path : Paths, method : Methods, operation : Fragments]

----------------------------------------------------------------------------
(* class Resolver *)

\* the injected function_resolver: what it does with an operation id
FunctionResolvers == {"found", "ImportError", "AttributeError", "ValueError"}

ErrorText(kind) ==
    CASE kind = "ImportError"    -> "No module named"
      [] kind = "AttributeError" -> "module has no attribute"
      [] kind = "ValueError"     -> "Empty module name"

function_resolver(behaviour, operation_id) ==
    IF behaviour = "found"
    THEN Return([function |-> operation_id])
    ELSE Raise(behaviour, "{}", <<ErrorText(behaviour)>>)

Resolution(function, operation_id) ==
    [function |-> function, operation_id |-> operation_id]

\* faulty variant: tests the router controller for truth instead of `is None`
Resolver_resolve_operation_id_truthy(operation) ==
    LET spec == operation.operation
        operation_id == Get(spec, "operationId", <<>>)
    IN  IF ~Truthy(spec, XRC)
        THEN Return(operation_id)
        ELSE Return(DotFormat(spec[XRC], operation_id))

Resolver_resolve_operation_id(operation) ==
    LET spec == operation.operation
        operation_id == Get(spec, "operationId", <<>>)
    IN  IF XRC \notin DOMAIN spec
        THEN Return(operation_id)
        ELSE Return(DotFormat(spec[XRC], operation_id))

Resolver_resolve_function_from_operation_id(behaviour, operation_id) ==
    LET r == function_resolver(behaviour, operation_id)
    IN  CASE r.kind = "return" -> r
          [] r.kind = "raise" /\ r.exc = "ImportError" ->
                Raise("ResolverError",
                      "Cannot resolve operationId \"{}\"! Import error was \"{}\"",
                      <<operation_id>> \o r.args)
          [] r.kind = "raise" /\ r.exc \in {"AttributeError", "ValueError"} ->
                Raise("ResolverError", "{}", r.args)
          [] OTHER -> r

----------------------------------------------------------------------------
(* class RestyResolver *)

RestyResolvers ==
    { [default_module_name |-> s_api, collection_endpoint_name |-> s_search],
      [default_module_name |-> s_api, collection_endpoint_name |-> s_list] }

\* re.search('^/?(?P<resource_name>([\w\-](?<!/))*)(?P<trailing_slash>/*)
\*            (?P<extended_path>.*)$', path): every quantifier is greedy and
\* the final .* takes what is left, so nothing backtracks
path_match(path) ==
    LET lead  == IF Len(path) > 0 /\ path[1] = "/" THEN 1 ELSE 0
        rest1 == SubSeq(path, lead + 1, Len(path))
        n     == PrefixLen(rest1, ResourceChars)
        rest2 == SubSeq(rest1, n + 1, Len(rest1))
        t     == PrefixLen(rest2, {"/"})
    IN  [resource_name  |-> SubSeq(rest1, 1, n),
         trailing_slash |-> SubSeq(rest2, 1, t),
         extended_path  |-> SubSeq(rest2, t + 1, Len(rest2))]

get_controller_name(self, operation) ==
    LET spec == operation.operation
        resource_name == path_match(operation.path).resource_name
    IN  IF Truthy(spec, XRC) THEN spec[XRC]
        ELSE IF resource_name # <<>>
             THEN DotFormat(self.default_module_name, Replace(resource_name, "-", "_"))
             ELSE self.default_module_name

\* faulty variant: a GET below the resource still counts as the collection endpoint
get_function_name_any_depth(self, operation) ==
    LET m == path_match(operation.path)
    IN  IF Lower(operation.method) = <<"g","e","t">> /\ m.resource_name # <<>>
        THEN self.collection_endpoint_name
        ELSE Lower(operation.method)

get_function_name(self, operation) ==
    LET m == path_match(operation.path)
        is_collection_endpoint ==
            /\ Lower(operation.method) = <<"g","e","t">>
            /\ m.resource_name # <<>>
            /\ m.extended_path = <<>>
    IN  IF is_collection_endpoint
        THEN self.collection_endpoint_name
        ELSE Lower(operation.method)

RestyResolver_resolve_operation_id_using_rest_semantics(self, operation) ==
    Return(DotFormat(get_controller_name(self, operation),
                     get_function_name(self, operation)))

RestyResolver_resolve_operation_id(self, operation) ==
    IF Truthy(operation.operation, "operationId")
    THEN Resolver_resolve_operation_id(operation)
    ELSE RestyResolver_resolve_operation_id_using_rest_semantics(self, operation)

----------------------------------------------------------------------------
(* class Controller and the controllers registered *)

Controllers == {"greeting1", "greeting2", "pets1"}

ClassOf(c) == IF c = "pets1" THEN "PetController" ELSE "GreetingController"

\* cls.__controllername__
controllername(cls) == IF cls = "GreetingController" THEN s_greeting ELSE s_pets

\* the names getattr finds on an instance
Attributes(c) ==
    IF ClassOf(c) = "GreetingController"
    THEN {s_post_greeting}
    ELSE {s_get_pets}

BoundMethod(c, name) == [self |-> c, name |-> name]

Controller_get_method_for_operation(self, operation) ==
    IF operation \in Attributes(self)
    THEN Return(BoundMethod(self, operation))
    ELSE Raise("ResolverError", "Controller {} has no operation '{}'",
               <<ClassOf(self), operation>>)

----------------------------------------------------------------------------
(* class ObjectResolver *)

\* faulty variant: a name already registered keeps its controller
ObjectResolver_add_controller_first_wins(registry, controller) ==
    LET key == controllername(ClassOf(controller))
    IN  [k \in DOMAIN registry \cup {key} |->
            IF k \in DOMAIN registry THEN registry[k] ELSE controller]

ObjectResolver_add_controller(registry, controller) ==
    LET key == controllername(ClassOf(controller))
    IN  [k \in DOMAIN registry \cup {key} |->
            IF k = key THEN controller ELSE registry[k]]

ObjectResolver_method_from_operation(operation) ==
    UnderscoreFormat(Lower(operation.method), Strip(operation.path, {"/"}))

\* faulty variant: with several controllers registered, one of them is taken
ObjectResolver_resolve_operation_id_any(registry, operation) ==
    LET spec == operation.operation
        operation_id == Get(spec, "operationId", <<>>)
        method_name == IF operation_id # <<>> THEN operation_id
                       ELSE UnderscoreFormat(Lower(operation.method),
                                             Strip(operation.path, {"/"}))
    IN  IF Truthy(spec, XRC)
        THEN Return(DotFormat(spec[XRC], method_name))
        ELSE IF Cardinality(DOMAIN registry) >= 1
             THEN Return(DotFormat(CHOOSE k \in DOMAIN registry : TRUE, method_name))
             ELSE Raise("ResolverError",
                        "Could not determine which controller to use", <<>>)

ObjectResolver_resolve_operation_id(registry, operation) ==
    LET spec == operation.operation
        operation_id == Get(spec, "operationId", <<>>)
        method_name == IF operation_id # <<>> THEN operation_id
                       ELSE ObjectResolver_method_from_operation(operation)
    IN  IF Truthy(spec, XRC)
        THEN Return(DotFormat(spec[XRC], method_name))
        ELSE IF Cardinality(DOMAIN registry) = 1
             THEN Return(DotFormat(CHOOSE k \in DOMAIN registry : TRUE, method_name))
             ELSE Raise("ResolverError",
                        "Could not determine which controller to use", <<>>)

ObjectResolver_resolve_function_from_operation_id(registry, operationId) ==
    LET parts == Split(operationId, ".")
    IN  IF Len(parts) < 4
        THEN Raise("IndexError", "list index out of range", <<>>)
        ELSE IF parts[3] \notin DOMAIN registry
             THEN Raise("KeyError", "{}", <<parts[3]>>)
             ELSE Controller_get_method_for_operation(registry[parts[3]], parts[4])

----------------------------------------------------------------------------
(* Resolver.resolve, inherited by ObjectResolver: self is                  *)
(* [class, function_resolver] or [class, controllers], and the two methods *)
(* resolve calls are those of self's class                                 *)

self_resolve_operation_id(self, operation) ==
    IF self.class = "ObjectResolver"
    THEN ObjectResolver_resolve_operation_id(self.controllers, operation)
    ELSE Resolver_resolve_operation_id(operation)

self_resolve_function_from_operation_id(self, operation_id) ==
    IF self.class = "ObjectResolver"
    THEN ObjectResolver_resolve_function_from_operation_id(self.controllers, operation_id)
    ELSE Resolver_resolve_function_from_operation_id(self.function_resolver, operation_id)

Resolver_resolve(self, operation) ==
    LET operation_id == self_resolve_operation_id(self, operation)
    IN  IF operation_id.kind = "raise" THEN operation_id
        ELSE LET function ==
                     self_resolve_function_from_operation_id(self, operation_id.value)
             IN  IF function.kind = "raise" THEN function
                 ELSE Return(Resolution(function.value, operation_id.value))

----------------------------------------------------------------------------
(* Response validation: the values a handler returns *)

DecimalDigits == <<"0","1","2","3","4","5","6","7","8","9">>

\* str(n) of a non-negative int
RECURSIVE Str(_)
Str(n) ==
    IF n < 10 THEN <<DecimalDigits[n + 1]>>
    ELSE Str(n \div 10) \o <<DecimalDigits[(n % 10) + 1]>>

k_200 == <<"2","0","0">>
k_404 == <<"4","0","4">>
k_default == <<"d","e","f","a","u","l","t">>

\* body values: JSON values, and a datetime, which the JSON encoder in use
\* writes as a string
JString(v) == [type |-> "string", value |-> v]
JInteger(v) == [type |-> "integer", value |-> v]
Datetime(v) == [type |-> "datetime", value |-> v]
JObject(d) == [type |-> "object", members |-> d]

Bodies ==
    { JObject("greeting" :> JString("Hello Bob")),
      JObject("greeting" :> JInteger("123")),
      JObject("greeting" :> Datetime("Mon, 02 Nov 2015")),
      JObject(EmptyDict),
      JString("Hello Bob") }

\* data = json.loads(json.dumps(data))
RECURSIVE json_roundtrip(_)
json_roundtrip(data) ==
    CASE data.type = "datetime" -> JString(data.value)
      [] data.type = "object" ->
            JObject([k \in DOMAIN data.members |-> json_roundtrip(data.members[k])])
      [] OTHER -> data

GreetingSchema ==
    [type |-> "object", required |-> {"greeting"},
     properties |-> ("greeting" :> [type |-> "string"])]

StringSchema == [type |-> "string"]

\* ResponseBodyValidator(schema).validate_schema(data): whether it returns
\* instead of raising ValidationError
RECURSIVE schema_accepts(_, _)
schema_accepts(schema, data) ==
    /\ data.type = schema.type
    /\ data.type = "object" =>
          /\ \A k \in Get(schema, "required", {}) : k \in DOMAIN data.members
          /\ \A k \in DOMAIN data.members \cap DOMAIN Get(schema, "properties", EmptyDict) :
                schema_accepts(schema.properties[k], data.members[k])

HeaderSets ==
    { EmptyDict,
      "X-Rate-Limit" :> "10",
      "x-rate-limit" :> "10",
      ("X-Rate-Limit" :> "none") @@ ("X-Extra" :> "1") }

StatusCodes == {200, 404}

\* what a handler hands back: a response with body, status and headers
Results == [data : Bodies, status_code : StatusCodes, headers : HeaderSets]

\* BaseDecorator.get_full_response(result)
get_full_response(r) == <<r.data, r.status_code, r.headers>>

----------------------------------------------------------------------------
(* Response validation: the operations and mimetypes a validator is built for *)

RateLimit == "X-Rate-Limit" :> [type |-> "integer"]

Refs == "#/responses/Greeting" :> (("schema" :> GreetingSchema) @@ ("headers" :> RateLimit))

\* operation.operation["responses"], one mapping per operation tried
ResponseMappings ==
    { k_200 :> (("schema" :> GreetingSchema) @@ ("headers" :> RateLimit)),
      k_200 :> ("schema" :> GreetingSchema),
      k_200 :> ("schema" :> StringSchema),
      k_200 :> ("headers" :> (RateLimit @@ ("X-Extra" :> [type |-> "string"]))),
      k_200 :> (("schema" :> GreetingSchema) @@ ("headers" :> EmptyDict)),
      k_200 :> EmptyDict,
      k_200 :> ("$ref" :> "#/responses/Greeting"),
      k_default :> (("schema" :> GreetingSchema) @@ ("headers" :> RateLimit)),
      (k_200 :> ("schema" :> GreetingSchema)) @@ (k_404 :> ("headers" :> RateLimit)) }

OperationOf(responses) == [operation |-> ("responses" :> responses), refs |-> Refs]

\* Operation.resolve_reference(definition)
resolve_reference(operation, definition) ==
    IF "$ref" \in DOMAIN definition
    THEN operation.refs[definition["$ref"]]
    ELSE definition

Mimetypes == {"application/json", "application/problem+json", "text/plain", "text/html"}

\* utils.produces_json([mimetype])
produces_json(mimetype) ==
    mimetype \in {"application/json", "application/problem+json"}

----------------------------------------------------------------------------
(* class ResponseValidator *)

ResponseValidator_init(operation, mimetype) ==
    [operation |-> operation, mimetype |-> mimetype]

\* the reason the two exception classes carry
Reason(exc) ==
    IF exc = "NonConformingResponseBody"
    THEN "Response body does not conform to specification"
    ELSE "Response headers do not conform to specification"

NonConforming(exc, message) ==
    [kind |-> "raise", exc |-> exc, reason |-> Reason(exc), message |-> message]

\* set(a).symmetric_difference(set(b))
symmetric_difference(a, b) == (a \ b) \cup (b \ a)

\* faulty variant: a status code with no definition falls back to "default"
lookup_response_definition_or_default(self, status_code) ==
    LET response_definitions == self.operation.operation["responses"]
    IN  resolve_reference(self.operation,
            Get(response_definitions, Str(status_code),
                Get(response_definitions, k_default, EmptyDict)))

\* response_definitions.get(str(status_code), {}), references resolved
lookup_response_definition(self, status_code) ==
    LET response_definitions == self.operation.operation["responses"]
    IN  resolve_reference(self.operation,
                          Get(response_definitions, Str(status_code), EmptyDict))

\* the condition under which the body is validated
body_is_validated(self, response_definition) ==
    /\ response_definition # EmptyDict
    /\ "schema" \in DOMAIN response_definition
    /\ produces_json(self.mimetype) \/ self.mimetype = "text/plain"

\* faulty variant: any() in place of all()
header_keys_present_any(response_definition, headers) ==
    \E item \in DOMAIN response_definition["headers"] : item \in DOMAIN headers

\* all(item in headers.keys() for item in response_definition_header_keys)
header_keys_present(response_definition, headers) ==
    \A item \in DOMAIN response_definition["headers"] : item \in DOMAIN headers

\* the body of validate_response once the response definition is looked up
validate_against(self, response_definition, data, headers) ==
    IF body_is_validated(self, response_definition)
       /\ ~schema_accepts(response_definition["schema"], json_roundtrip(data))
    THEN NonConforming("NonConformingResponseBody",
                       [error |-> "ValidationError",
                        instance |-> json_roundtrip(data),
                        schema |-> response_definition["schema"]])
    ELSE IF /\ response_definition # EmptyDict
            /\ Truthy(response_definition, "headers")
            /\ ~header_keys_present(response_definition, headers)
    THEN NonConforming("NonConformingResponseHeaders",
            [template |-> "Keys in header don't match response specification. Difference: %s",
             difference |-> symmetric_difference(
                                DOMAIN headers,
                                DOMAIN response_definition["headers"])])
    ELSE Return(TRUE)

\* faulty variant: the response definition looked up first is kept on the instance
\* and used for the requests that follow
validate_response_cached(self, data, status_code, headers) ==
    LET response_definition ==
            IF "response_definition" \in DOMAIN self
            THEN self["response_definition"]
            ELSE lookup_response_definition(self, status_code)
    IN  [self |-> [k \in DOMAIN self \cup {"response_definition"} |->
                      IF k = "response_definition" THEN response_definition ELSE self[k]],
         out  |-> validate_against(self, response_definition, data, headers)]

\* validate_response: the instance as the call leaves it, and how it ends
validate_response(self, data, status_code, headers) ==
    [self |-> self,
     out  |-> validate_against(self, lookup_response_definition(self, status_code),
                               data, headers)]

\* problem(status, title, detail)
problem(status, title, detail) ==
    [problem |-> TRUE, status |-> status, title |-> title, detail |-> detail]

\* faulty variant: only NonConformingResponseBody is caught
wrapper_return_body_only(res, ended) ==
    CASE ended.kind = "raise" /\ ended.exc = "NonConformingResponseBody" ->
            Return(problem(500, ended.reason, ended.message))
      [] ended.kind = "raise" -> ended
      [] OTHER -> Return(res)

\* the try statement of wrapper: what the wrapped call gives its caller once
\* get_full_response and validate_response have ended with `ended`
wrapper_return(res, ended) ==
    CASE ended.kind = "raise" /\ ended.exc = "NonConformingResponseBody" ->
            Return(problem(500, ended.reason, ended.message))
      [] ended.kind = "raise" /\ ended.exc = "NonConformingResponseHeaders" ->
            Return(problem(500, ended.reason, ended.message))
      [] ended.kind = "raise" -> ended
      [] OTHER -> Return(res)

----------------------------------------------------------------------------
(* The resolvers as a state machine: one ObjectResolver whose registry     *)
(* grows by add_controller, and a caller that makes one resolver call at a *)
(* time and then takes its outcome.                                        *)

MaxCalls == 3

\* the operation ids handed directly to resolve_function_from_operation_id
IdInputs == {Resolver_resolve_operation_id(op).value : op \in Operations}

NoRequests == <<>>

InitResolvers ==
    /\ controllers = EmptyDict
    /\ history = <<>>
    /\ ret = NoCall
    /\ validator = NoCall
    /\ pc = NoRequests
    /\ result = NoRequests
    /\ verdict = NoRequests
    /\ returned = NoRequests

add_controller(c) ==
    /\ ret = NoCall
    /\ Len(history) < MaxCalls
    /\ controllers' = ObjectResolver_add_controller(controllers, c)
    /\ history' = Append(history, c)
    /\ UNCHANGED <<ret, validatorVars>>

Resolver_call_resolve_operation_id(op) ==
    /\ ret = NoCall
    /\ ret' = [fn |-> "Resolver.resolve_operation_id", operation |-> op,
               out |-> Resolver_resolve_operation_id(op)]
    /\ UNCHANGED <<controllers, history, validatorVars>>

Resolver_call_resolve_function_from_operation_id(b, id) ==
    /\ ret = NoCall
    /\ ret' = [fn |-> "Resolver.resolve_function_from_operation_id",
               function_resolver |-> b, operation_id |-> id,
               out |-> Resolver_resolve_function_from_operation_id(b, id)]
    /\ UNCHANGED <<controllers, history, validatorVars>>

Resolver_call_resolve(b, op) ==
    /\ ret = NoCall
    /\ ret' = [fn |-> "Resolver.resolve", function_resolver |-> b, operation |-> op,
               out |-> Resolver_resolve([class |-> "Resolver", function_resolver |-> b], op)]
    /\ UNCHANGED <<controllers, history, validatorVars>>

RestyResolver_call_resolve_operation_id(self, op) ==
    /\ ret = NoCall
    /\ ret' = [fn |-> "RestyResolver.resolve_operation_id", self |-> self,
               operation |-> op,
               out |-> RestyResolver_resolve_operation_id(self, op)]
    /\ UNCHANGED <<controllers, history, validatorVars>>

ObjectResolver_call_resolve_operation_id(op) ==
    /\ ret = NoCall
    /\ ret' = [fn |-> "ObjectResolver.resolve_operation_id", operation |-> op,
               out |-> ObjectResolver_resolve_operation_id(controllers, op)]
    /\ UNCHANGED <<controllers, history, validatorVars>>

ObjectResolver_call_resolve_function_from_operation_id(id) ==
    /\ ret = NoCall
    /\ ret' = [fn |-> "ObjectResolver.resolve_function_from_operation_id",
               operation_id |-> id,
               out |-> ObjectResolver_resolve_function_from_operation_id(controllers, id)]
    /\ UNCHANGED <<controllers, history, validatorVars>>

ObjectResolver_call_resolve(op) ==
    /\ ret = NoCall
    /\ ret' = [fn |-> "ObjectResolver.resolve", operation |-> op,
               out |-> Resolver_resolve([class |-> "ObjectResolver",
                                         controllers |-> controllers], op)]
    /\ UNCHANGED <<controllers, history, validatorVars>>

\* the caller takes the outcome and goes on
Continue ==
    /\ ret # NoCall
    /\ ret' = NoCall
    /\ UNCHANGED <<controllers, history, validatorVars>>

NextResolvers ==
    \/ \E c \in Controllers : add_controller(c)
    \/ \E op \in Operations : Resolver_call_resolve_operation_id(op)
    \/ \E b \in FunctionResolvers, id \in IdInputs :
            Resolver_call_resolve_function_from_operation_id(b, id)
    \/ \E b \in FunctionResolvers, op \in Operations : Resolver_call_resolve(b, op)
    \/ \E self \in RestyResolvers, op \in Operations :
            RestyResolver_call_resolve_operation_id(self, op)
    \/ \E op \in Operations : ObjectResolver_call_resolve_operation_id(op)
    \/ \E id \in IdInputs : ObjectResolver_call_resolve_function_from_operation_id(id)
    \/ \E op \in Operations : ObjectResolver_call_resolve(op)
    \/ Continue

Spec == InitResolvers /\ [][NextResolvers]_vars

----------------------------------------------------------------------------
(* The wrapped handler as a state machine: requests go through one         *)
(* ResponseValidator instance, each through the steps of wrapper.          *)

NumRequests == 2

Validators ==
    { ResponseValidator_init(OperationOf(m), t) :
        m \in ResponseMappings, t \in Mimetypes }

\* the validators and handler results of the interleaved requests
ConcurrentValidators ==
    { ResponseValidator_init(
          OperationOf((k_200 :> ("schema" :> GreetingSchema))
                          @@ (k_404 :> ("headers" :> RateLimit))),
          "application/json"),
      ResponseValidator_init(
          OperationOf(k_200 :> (("schema" :> GreetingSchema) @@ ("headers" :> RateLimit))),
          "text/plain") }

ConcurrentResults ==
    { r \in Results :
        /\ r.data \in { JObject("greeting" :> JString("Hello Bob")),
                        JObject("greeting" :> JInteger("123")) }
        /\ r.headers \in {EmptyDict, "X-Rate-Limit" :> "10"}
        /\ r.status_code = 200 \/ r.data.members["greeting"].type = "string" }

InitRequests(instances, n) ==
    /\ validator \in instances
    /\ pc = [r \in 1..n |-> "idle"]
    /\ result = [r \in 1..n |-> NoCall]
    /\ verdict = [r \in 1..n |-> NoCall]
    /\ returned = [r \in 1..n |-> NoCall]
    /\ controllers = EmptyDict
    /\ history = <<>>
    /\ ret = NoCall

\* result = function(*args, **kwargs)
wrapper_call(r, results) ==
    /\ pc[r] = "idle"
    /\ \E res \in results : result' = [result EXCEPT ![r] = res]
    /\ pc' = [pc EXCEPT ![r] = "called"]
    /\ UNCHANGED <<validator, verdict, returned, resolverVars>>

\* data, status_code, headers = self.get_full_response(result)
\* self.validate_response(data, status_code, headers)
wrapper_validate(r) ==
    /\ pc[r] = "called"
    /\ LET full == get_full_response(result[r])
           v == validate_response(validator, full[1], full[2], full[3])
       IN  /\ validator' = v.self
           /\ verdict' = [verdict EXCEPT ![r] = v.out]
    /\ pc' = [pc EXCEPT ![r] = "validated"]
    /\ UNCHANGED <<result, returned, resolverVars>>

\* the except clauses and `return result`
wrapper_respond(r) ==
    /\ pc[r] = "validated"
    /\ returned' = [returned EXCEPT ![r] = wrapper_return(result[r], verdict[r])]
    /\ pc' = [pc EXCEPT ![r] = "done"]
    /\ UNCHANGED <<validator, result, verdict, resolverVars>>

InitValidate == InitRequests(Validators, 1)

NextValidate ==
    \/ \E r \in DOMAIN pc : wrapper_call(r, Results)
    \/ \E r \in DOMAIN pc : wrapper_validate(r)
    \/ \E r \in DOMAIN pc : wrapper_respond(r)

SpecValidate == InitValidate /\ [][NextValidate]_vars

InitConcurrent == InitRequests(ConcurrentValidators, NumRequests)

NextConcurrent ==
    \/ \E r \in DOMAIN pc : wrapper_call(r, ConcurrentResults)
    \/ \E r \in DOMAIN pc : wrapper_validate(r)
    \/ \E r \in DOMAIN pc : wrapper_respond(r)

SpecConcurrent == InitConcurrent /\ [][NextConcurrent]_vars

----------------------------------------------------------------------------
(* Claims about the resolvers, checked under Spec *)

Called(fn) == ret # NoCall /\ ret.fn = fn

\* C5: Resolver.resolve_operation_id returns the fragment's operationId
\* unchanged ("" when there is none) for an operation that declares no
\* x-swagger-router-controller and "{controller}.{operationId}" for one that
\* declares it; RestyResolver.resolve_operation_id returns that same value
\* whenever the operation has a (non-empty) operationId.
C5_BaseOperationId ==
    LET spec == ret.operation.operation
        oid  == IF "operationId" \in DOMAIN spec THEN spec["operationId"] ELSE <<>>
        base == IF XRC \in DOMAIN spec THEN spec[XRC] \o <<".">> \o oid ELSE oid
    IN  /\ Called("Resolver.resolve_operation_id") => ret.out = Return(base)
        /\ Called("RestyResolver.resolve_operation_id") /\ oid # <<>>
               => ret.out = Return(base)

C5_Witness ==
    /\ Called("RestyResolver.resolve_operation_id")
    /\ ret.operation.operation = ("operationId" :> s_post_greeting) @@ (XRC :> <<>>)
    /\ ret.out = Return(<<".">> \o s_post_greeting)

\* what the claims call the controller name and the method name of an
\* ObjectResolver operation id
MethodNameOf(op) ==
    LET spec == op.operation
    IN  IF "operationId" \in DOMAIN spec /\ spec["operationId"] # <<>>
        THEN spec["operationId"]
        ELSE Lower(op.method) \o <<"_">> \o Strip(op.path, {"/"})

Ambiguous ==
    Raise("ResolverError", "Could not determine which controller to use", <<>>)

\* C3 as stated: without x-swagger-router-controller, resolve_operation_id
\* uses the sole controller's name when exactly one controller has been
\* registered and fails with the ambiguous-controller ResolverError when none
\* or two or more have been; with x-swagger-router-controller given, that
\* value is the controller name whatever has been registered.
C3_AsStated ==
    Called("ObjectResolver.resolve_operation_id") =>
        LET spec == ret.operation.operation
            registered == Range(history)
            m == MethodNameOf(ret.operation)
        IN  IF XRC \in DOMAIN spec
            THEN ret.out = Return(spec[XRC] \o <<".">> \o m)
            ELSE IF Cardinality(registered) = 1
                 THEN \E c \in registered :
                        ret.out = Return(controllername(ClassOf(c)) \o <<".">> \o m)
                 ELSE ret.out = Ambiguous

\* C3 amended: what counts is the number of names in the registry (two
\* controllers registered under one name leave one entry), and an empty
\* x-swagger-router-controller counts as not given.
C3_InferController ==
    Called("ObjectResolver.resolve_operation_id") =>
        LET spec == ret.operation.operation
            names == {controllername(ClassOf(c)) : c \in Range(history)}
            m == MethodNameOf(ret.operation)
        IN  IF XRC \in DOMAIN spec /\ spec[XRC] # <<>>
            THEN ret.out = Return(spec[XRC] \o <<".">> \o m)
            ELSE IF Cardinality(names) = 1
                 THEN \E n \in names : ret.out = Return(n \o <<".">> \o m)
                 ELSE ret.out = Ambiguous

C3_Witness ==
    /\ Called("ObjectResolver.resolve_operation_id")
    /\ XRC \notin DOMAIN ret.operation.operation
    /\ history = <<"greeting1", "greeting2">>
    /\ ret.out = Return(s_greeting \o <<".">> \o s_post_greeting)

\* C9: the registry maps each name ever registered to the controller most
\* recently registered under it, holds no other name, and is left as it is
\* by every resolver call.
C9_LastRegistrationWins ==
    LET NameAt(i) == controllername(ClassOf(history[i]))
        names == {NameAt(i) : i \in DOMAIN history}
    IN  /\ DOMAIN controllers = names
        /\ \A i \in DOMAIN history :
              (\A j \in DOMAIN history : j > i => NameAt(j) # NameAt(i))
                  => controllers[NameAt(i)] = history[i]

C9_Witness ==
    /\ history = <<"greeting1", "pets1", "greeting2">>
    /\ controllers[s_greeting] = "greeting2"
    /\ controllers[s_pets] = "pets1"
    /\ Called("ObjectResolver.resolve_operation_id")

\* the three operations the specification works out for default module "api"
RestExample(self, op, path, id) ==
    /\ self.default_module_name = s_api
    /\ self.collection_endpoint_name = s_search
    /\ op.path = path
    /\ op.method = s_GET
    /\ XRC \notin DOMAIN op.operation
    => ret.out = Return(id)

RestExamples(self, op) ==
    /\ RestExample(self, op, p_pets,
           <<"a","p","i",".","p","e","t","s",".","s","e","a","r","c","h">>)
    /\ RestExample(self, op, p_pets_id,
           <<"a","p","i",".","p","e","t","s",".","g","e","t">>)
    /\ RestExample(self, op, p_root, <<"a","p","i",".","g","e","t">>)

\* the id REST semantics give, the router controller being used when given
RestId(self, op, given) ==
    LET spec == op.operation
        m == path_match(op.path)
        controller_name ==
            IF given THEN spec[XRC]
            ELSE IF m.resource_name # <<>>
                 THEN self.default_module_name \o <<".">>
                          \o Replace(m.resource_name, "-", "_")
                 ELSE self.default_module_name
        function_name ==
            IF /\ Lower(op.method) = <<"g","e","t">>
               /\ m.resource_name # <<>>
               /\ m.extended_path = <<>>
            THEN self.collection_endpoint_name
            ELSE Lower(op.method)
    IN  controller_name \o <<".">> \o function_name

NoOperationId(op) ==
    "operationId" \notin DOMAIN op.operation \/ op.operation["operationId"] = <<>>

\* C4 as stated: without an operationId, RestyResolver.resolve_operation_id
\* returns "{controller_name}.{function_name}", controller_name being
\* x-swagger-router-controller if present, else the default module name with
\* "." + resource name (hyphens as underscores) when the path has one, and
\* function_name the collection endpoint name exactly for a GET of a resource
\* with no extended path, else the lowercased method.
C4_AsStated ==
    Called("RestyResolver.resolve_operation_id") /\ NoOperationId(ret.operation) =>
        LET present == XRC \in DOMAIN ret.operation.operation
        IN  /\ ret.out = Return(RestId(ret.self, ret.operation, present))
            /\ RestExamples(ret.self, ret.operation)

\* C4 amended: x-swagger-router-controller is the controller name only when
\* it is present and not empty; an empty one is treated as absent.
C4_RestSemantics ==
    Called("RestyResolver.resolve_operation_id") /\ NoOperationId(ret.operation) =>
        LET spec == ret.operation.operation
            nonempty == XRC \in DOMAIN spec /\ spec[XRC] # <<>>
        IN  /\ ret.out = Return(RestId(ret.self, ret.operation, nonempty))
            /\ RestExamples(ret.self, ret.operation)

C4_Witness ==
    /\ Called("RestyResolver.resolve_operation_id")
    /\ ret.operation = [path |-> p_my_pets, method |-> s_GET,
                        operation |-> (XRC :> <<>>)]
    /\ ret.self.collection_endpoint_name = s_search
    /\ ret.out = Return(<<"a","p","i",".","m","y","_","p","e","t","s",".",
                          "s","e","a","r","c","h">>)

\* C2: when the controller an operation resolves to is registered and has a
\* method of the operation's method name, ObjectResolver.resolve returns the
\* Resolution of "{controller_name}.{method_name}" and that bound method.
C2_ResolveRegistered ==
    Called("ObjectResolver.resolve") =>
        LET spec == ret.operation.operation
            m == MethodNameOf(ret.operation)
            given == XRC \in DOMAIN spec /\ spec[XRC] # <<>>
            names == IF given THEN {spec[XRC]}
                     ELSE IF Cardinality(DOMAIN controllers) = 1
                          THEN DOMAIN controllers ELSE {}
        IN  \A n \in names :
                n \in DOMAIN controllers /\ m \in Attributes(controllers[n])
                    => ret.out = Return(Resolution(BoundMethod(controllers[n], m),
                                                   n \o <<".">> \o m))

\* C8: Resolver.resolve_function_from_operation_id hands back what
\* function_resolver returns, turns its ImportError into a ResolverError
\* naming the operation id and the import failure, and its AttributeError or
\* ValueError into a ResolverError with that error's text; and every failure
\* that resolve lets out, in any resolver, is a ResolverError.
C8_OnlyResolverError ==
    /\ Called("Resolver.resolve_function_from_operation_id") =>
          LET b == ret.function_resolver
              id == ret.operation_id
          IN  CASE b = "found" -> ret.out = Return([function |-> id])
                [] b = "ImportError" ->
                      ret.out = Raise("ResolverError",
                          "Cannot resolve operationId \"{}\"! Import error was \"{}\"",
                          <<id, ErrorText(b)>>)
                [] OTHER -> ret.out = Raise("ResolverError", "{}", <<ErrorText(b)>>)
    /\ Called("Resolver.resolve") \/ Called("ObjectResolver.resolve") =>
          (ret.out.kind = "raise" => ret.out.exc = "ResolverError")

----------------------------------------------------------------------------
(* Claims about ResponseValidator, checked under SpecValidate *)

Validated(r) == pc[r] \in {"validated", "done"}

IsRaise(o, exc) == o.kind = "raise" /\ o.exc = exc

\* the response definition declared for the status code of request r, and
\* the declared header keys its response lacks
DeclaredFor(r) ==
    LET responses == validator.operation.operation["responses"]
        key == Str(result[r].status_code)
    IN  IF key \in DOMAIN responses
        THEN resolve_reference(validator.operation, responses[key])
        ELSE EmptyDict

DeclaredHeaders(r) ==
    IF "headers" \in DOMAIN DeclaredFor(r)
    THEN DOMAIN DeclaredFor(r)["headers"] ELSE {}

MissingHeaders(r) == DeclaredHeaders(r) \ DOMAIN result[r].headers

HeaderMessageRight(r) ==
    IsRaise(verdict[r], "NonConformingResponseHeaders") =>
        /\ verdict[r].message.difference =
              (DOMAIN result[r].headers \ DeclaredHeaders(r))
                  \cup (DeclaredHeaders(r) \ DOMAIN result[r].headers)
        /\ MissingHeaders(r) \subseteq verdict[r].message.difference

\* C1: when validate_response fails with NonConformingResponseBody or
\* NonConformingResponseHeaders the wrapped call returns a 500 problem with
\* the error's reason and message, not the handler's result, and lets no
\* error out; when it succeeds the wrapped call returns the handler's result.
C1_ProblemOrResult ==
    \A r \in DOMAIN pc : pc[r] = "done" =>
        LET full == get_full_response(result[r])
            v == validate_response(validator, full[1], full[2], full[3]).out
        IN  /\ returned[r].kind = "return"
            /\ IsRaise(v, "NonConformingResponseBody")
                   \/ IsRaise(v, "NonConformingResponseHeaders")
               => /\ returned[r].value =
                        [problem |-> TRUE, status |-> 500,
                         title |-> v.reason, detail |-> v.message]
                  /\ returned[r].value # result[r]
            /\ v = Return(TRUE) => returned[r].value = result[r]

C1_Witness ==
    \E r \in DOMAIN pc :
        /\ pc[r] = "done"
        /\ IsRaise(verdict[r], "NonConformingResponseHeaders")
        /\ returned[r].value.status = 500
        /\ returned[r].value.title = "Response headers do not conform to specification"

\* C6 as stated: validate_response fails with NonConformingResponseHeaders
\* exactly when the response definition for the status code declares headers
\* and a declared key is absent from the response's header keys; the message
\* lists the symmetric difference of the two key sets.
C6_AsStated ==
    \A r \in DOMAIN pc : Validated(r) =>
        /\ IsRaise(verdict[r], "NonConformingResponseHeaders") <=> MissingHeaders(r) # {}
        /\ HeaderMessageRight(r)

\* C6 amended: ... exactly when a declared key is absent and the body check
\* has not already failed with NonConformingResponseBody.
C6_MissingHeaderKeys ==
    \A r \in DOMAIN pc : Validated(r) =>
        /\ IsRaise(verdict[r], "NonConformingResponseHeaders")
              <=> /\ MissingHeaders(r) # {}
                  /\ ~IsRaise(verdict[r], "NonConformingResponseBody")
        /\ HeaderMessageRight(r)

C6_Witness ==
    \E r \in DOMAIN pc :
        /\ Validated(r)
        /\ DOMAIN result[r].headers = {"x-rate-limit"}
        /\ IsRaise(verdict[r], "NonConformingResponseHeaders")
        /\ verdict[r].message.difference = {"x-rate-limit", "X-Rate-Limit"}

\* C10: the body is checked against a schema exactly when the responses
\* mapping has a definition under str(status_code), that definition has a
\* schema once references are resolved, and the mimetype is JSON or
\* text/plain; a body that fails raises NonConformingResponseBody, before
\* any header check; otherwise validate_response returns true unless the
\* header check fails.
C10_BodyChecked ==
    \A r \in DOMAIN pc : Validated(r) =>
        LET checked ==
                /\ Str(result[r].status_code)
                       \in DOMAIN validator.operation.operation["responses"]
                /\ "schema" \in DOMAIN DeclaredFor(r)
                /\ produces_json(validator.mimetype) \/ validator.mimetype = "text/plain"
            fails == ~schema_accepts(DeclaredFor(r)["schema"],
                                     json_roundtrip(result[r].data))
        IN  /\ IsRaise(verdict[r], "NonConformingResponseBody") <=> (checked /\ fails)
            /\ ~(checked /\ fails) =>
                   IF MissingHeaders(r) = {}
                   THEN verdict[r] = Return(TRUE)
                   ELSE IsRaise(verdict[r], "NonConformingResponseHeaders")

C10_Witness ==
    \E r \in DOMAIN pc :
        /\ Validated(r)
        /\ MissingHeaders(r) # {}
        /\ validator.mimetype = "text/plain"
        /\ IsRaise(verdict[r], "NonConformingResponseBody")

----------------------------------------------------------------------------
(* Claims about overlapping requests, checked under SpecConcurrent *)

\* what the wrapped call returns for a handler result when it runs alone on
\* an instance built for (operation, mimetype)
Alone(operation, mimetype, res) ==
    LET self == ResponseValidator_init(operation, mimetype)
        full == get_full_response(res)
    IN  wrapper_return(res, validate_response(self, full[1], full[2], full[3]).out)

\* C7: however the requests through one ResponseValidator interleave, no
\* step changes the instance (its operation and mimetype stay as built and
\* nothing is added to it), and each request that has returned has returned
\* what it would have returned running alone.
C7_NoSharedState ==
    [][ /\ validator' = validator
        /\ \A r \in DOMAIN pc :
              pc'[r] = "done" =>
                  returned'[r] = Alone(validator.operation, validator.mimetype, result'[r])
      ]_vars

C7_Witness ==
    /\ pc[1] = "done"
    /\ pc[2] = "validated"
    /\ result[1].status_code # result[2].status_code
    /\ "problem" \in DOMAIN returned[1].value
    /\ verdict[2] = Return(TRUE)

====
